---- MODULE Spec2Model ----
(***************************************************************************)
(* Model of the traction-backend chat pipeline: extraction turns that      *)
(* merge inferred fields into the project's documents, the completion      *)
(* gate, and fingerprint-gated generation that runs in a background task.  *)
(*                                                                         *)
(* Storage model.  Every request runs in its own session and transaction   *)
(* (get_db): what it reads stays in the session as loaded, what it writes  *)
(* becomes visible to other sessions at commit and is discarded on         *)
(* rollback.  `project`, `documents` and `chat_messages` are the committed *)
(* rows; `turns[t]` holds the session of request t.  A query without       *)
(* ORDER BY is taken to return the rows in their stored order.  The rows   *)
(* of chat_messages are kept as the number of rows of each (role, content).*)
(*                                                                         *)
(* Values.  JSON values are tokens: "None", "''" (empty string), "[]"      *)
(* (empty list), "{}" (empty dict) and substantive values such as "'a'",   *)
(* "['x']", "3".  An optional value is <<>> (None) or <<v>>.               *)
(***************************************************************************)
EXTENDS Integers, Sequences, FiniteSets, TLC

VARIABLES project, documents, chat_messages, turns, attempts, mrg, gate,
          hsh, auth, projects

vars == <<project, documents, chat_messages, turns, attempts, mrg, gate,
          hsh, auth, projects>>

(***************************************************************************)
(* Bounds of the model                                                     *)
(***************************************************************************)
MaxTurns == 3
MaxActive == 2
MaxProseFailures == 1
MaxGenerateDocuments == 1
MoreTurns == 1

\* The requests: MaxTurns of them in every specification, MoreTurns further
\* ones in SpecLong.
TurnIds == 1..(MaxTurns + MoreTurns)

Null == <<>>
Some(x) == <<x>>

RangeOf(s) == {s[i] : i \in DOMAIN s}

\* The subsets of S with at most n elements.
RECURSIVE SmallSubsets(_, _)
SmallSubsets(S, n) ==
    IF n = 0 THEN {{}}
    ELSE LET P == SmallSubsets(S, n - 1)
         IN P \cup {F \cup {x} : F \in P, x \in S}

(***************************************************************************)
(* schemas/extraction.py                                                   *)
(***************************************************************************)
DOCUMENT_TYPE_TITLES ==
    << "product-description", "timeline", "swot-analysis", "market-research",
       "financial-projections", "funding-requirements", "product-forecast",
       "competitive-analysis", "executive-summary" >>

DOCUMENT_TYPE_TO_ATTR == RangeOf(DOCUMENT_TYPE_TITLES)

\* FundingRequirementsFields: one str, one list and one int field besides
\* is_complete.  Every document type's model has the same shape (is_complete
\* plus optional fields), so this model stands for all of them.
FieldKeys == {"funding_stage", "use_of_funds", "runway_months"}

FieldValues(k) ==
    IF k = "funding_stage" THEN {"None", "''", "'a'", "'b'"}
    ELSE IF k = "use_of_funds" THEN {"None", "[]", "['x']"}
    ELSE {"None", "0", "3"}

\* model_dump() of a section: every key of the model is present.
Sections ==
    { [k \in FieldKeys \cup {"is_complete"} |->
          IF k = "is_complete" THEN c
          ELSE IF k = "funding_stage" THEN a
          ELSE IF k = "use_of_funds" THEN b ELSE n] :
      c \in {"True", "False"}, a \in FieldValues("funding_stage"),
      b \in FieldValues("use_of_funds"), n \in FieldValues("runway_months") }

EmptyBag == [k \in {} |-> "None"]

\* dict.get(key, default)
Get(bag, k, default) == IF k \in DOMAIN bag THEN bag[k] ELSE default

\* `doc.fields or {}`
FieldsOrEmpty(fields) == IF fields = Null THEN EmptyBag ELSE fields[1]

\* existing.get("is_complete", False), used for its truth value
IsComplete(fields) == Get(FieldsOrEmpty(fields), "is_complete", "False") = "True"

(***************************************************************************)
(* core/ai_generators.py                                                   *)
(***************************************************************************)
\* json.dumps(..., sort_keys=True): None is "null", a dict is its set of
\* key/value pairs whatever the order they were inserted in.
CanonicalJson(fields) ==
    IF fields = Null THEN {<<"null">>}
    ELSE {<<"{}">>} \cup {<<k, fields[1][k]>> : k \in DOMAIN fields[1]}

compute_fields_hash(documents_fields) ==
    <<"sha256", [i \in DOMAIN documents_fields |-> CanonicalJson(documents_fields[i])]>>

\* {doc_type: {is_complete, fields}}; a later document of a type replaces an
\* earlier one of the same type.
build_extraction_state(docs) ==
    LET types == {docs[i].type : i \in DOMAIN docs}
        last(t) == CHOOSE i \in DOMAIN docs :
                      /\ docs[i].type = t
                      /\ \A j \in DOMAIN docs : docs[j].type = t => j <= i
    IN [t \in types |->
          LET raw == FieldsOrEmpty(docs[last(t)].fields)
          IN [is_complete |-> Get(raw, "is_complete", "False"),
              fields |-> [k \in DOMAIN raw \ {"is_complete"} |-> raw[k]]]]

\* check_all_complete without the count of the represented types
check_all_complete_no_count(extraction_state) ==
    \A t \in DOMAIN extraction_state : extraction_state[t].is_complete = "True"

check_all_complete(extraction_state) ==
    IF Cardinality(DOMAIN extraction_state) < Cardinality(DOCUMENT_TYPE_TO_ATTR)
    THEN FALSE
    ELSE \A t \in DOMAIN extraction_state : extraction_state[t].is_complete = "True"

\* {doc_type: doc.fields or {}} as built by _handle_design_mode and packaged
\* by generate_ai_json.
generate_ai_json(all_fields) == Some(all_fields)

(***************************************************************************)
(* controllers/chat_controller.py : merge of _handle_doc_mode              *)
(***************************************************************************)
\* line 214: old is not None and old != [] and old != "" and old != {}
IsPopulated(old) == old \notin {"None", "[]", "''", "{}"}

\* lines 216-219: the incoming value is an empty list or an empty string
IsEmptyIncoming(value) == value \in {"[]", "''"}

\* MergeFields without lines 212-219: every non-null incoming value is written
MergeFieldsOverwrite(existing, new_fields) ==
    LET written == { k \in DOMAIN new_fields \ {"is_complete"} : new_fields[k] # "None" }
        upgrade == new_fields["is_complete"] = "True"
        dom == DOMAIN existing \cup written
                 \cup (IF upgrade THEN {"is_complete"} ELSE {})
    IN [k \in dom |->
          IF k = "is_complete" /\ upgrade THEN "True"
          ELSE IF k \in written THEN new_fields[k]
          ELSE existing[k]]

\* MergeFields with line 221 extending a stored list by the incoming one
MergeFieldsExtendLists(existing, new_fields) ==
    LET written == { k \in DOMAIN new_fields \ {"is_complete"} :
                       /\ new_fields[k] # "None"
                       /\ ~(IsPopulated(Get(existing, k, "None"))
                             /\ IsEmptyIncoming(new_fields[k])) }
        upgrade == new_fields["is_complete"] = "True"
        dom == DOMAIN existing \cup written
                 \cup (IF upgrade THEN {"is_complete"} ELSE {})
    IN [k \in dom |->
          IF k = "is_complete" /\ upgrade THEN "True"
          ELSE IF k \in written
               THEN IF new_fields[k] = "['x']" /\ Get(existing, k, "None") = "['x']"
                    THEN "['x', 'x']" ELSE new_fields[k]
          ELSE existing[k]]

\* lines 200-221: the loop over new_fields, building a new dict
MergeFields(existing, new_fields) ==
    LET written == { k \in DOMAIN new_fields \ {"is_complete"} :
                       /\ new_fields[k] # "None"
                       /\ ~(IsPopulated(Get(existing, k, "None"))
                             /\ IsEmptyIncoming(new_fields[k])) }
        upgrade == new_fields["is_complete"] = "True"
        dom == DOMAIN existing \cup written
                 \cup (IF upgrade THEN {"is_complete"} ELSE {})
    IN [k \in dom |->
          IF k = "is_complete" /\ upgrade THEN "True"
          ELSE IF k \in written THEN new_fields[k]
          ELSE existing[k]]

\* MergeDoc without lines 187-190: a complete document is merged like any other
MergeDocNoFreeze(doc, section) ==
    IF doc.type \notin DOCUMENT_TYPE_TO_ATTR THEN doc
    ELSE IF section = Null THEN doc
    ELSE LET merged == MergeFields(FieldsOrEmpty(doc.fields), section[1])
         IN [doc EXCEPT !.fields = Some(merged),
                        !.status = IF Get(merged, "is_complete", "False") = "True"
                                   THEN "ready" ELSE "pending"]

\* lines 182-230: the body of the loop for one document; `section` is
\* getattr(extraction, attr_name, None) as an optional model_dump.
MergeDoc(doc, section) ==
    IF doc.type \notin DOCUMENT_TYPE_TO_ATTR THEN doc
    ELSE IF IsComplete(doc.fields) THEN doc
    ELSE IF section = Null THEN doc
    ELSE LET merged == MergeFields(FieldsOrEmpty(doc.fields), section[1])
         IN [doc EXCEPT !.fields = Some(merged),
                        !.status = IF Get(merged, "is_complete", "False") = "True"
                                   THEN "ready" ELSE "pending"]

(***************************************************************************)
(* Stored rows and sessions                                                *)
(***************************************************************************)
\* project_controller.create_project: the project as created
NewProject ==
    [ id |-> "p1", user_id |-> "owner",
      mode |-> "doc", status |-> "draft", prompt |-> "",
      full_html |-> Null, llms_txt |-> Null, ai_json |-> Null,
      last_generation_fields_hash |-> Null ]

\* models/chat_message.py: the (role, content) values the controller writes
ChatMessage(role, content) == [role |-> role, content |-> content]

UserMessage == ChatMessage("user", "content")
AssistantReply == ChatMessage("assistant", "extraction.response")
NoChangesMessage == ChatMessage("assistant", "No changes detected")
GeneratingMessage == ChatMessage("assistant", "Generating your pitch deck")
DoneMessage == ChatMessage("assistant", "Your pitch deck is ready")
FailMessage == ChatMessage("assistant", "Design generation encountered an error")

MessageValues ==
    { UserMessage, AssistantReply, NoChangesMessage, GeneratingMessage,
      DoneMessage, FailMessage }

\* INSERT of the messages `msgs` at commit
AddMessages(msgs) ==
    [m \in MessageValues |->
        chat_messages[m] + Cardinality({i \in DOMAIN msgs : msgs[i] = m})]

\* A request that has not arrived yet; a request is the owner's, on the
\* project, unless the action that starts it says otherwise.
IdleTurn ==
    [ pc |-> "idle", user |-> NewProject.user_id, project_id |-> NewProject.id,
      mode |-> "doc", proj |-> NewProject, dirty |-> {},
      docs |-> <<>>, new_ids |-> {}, current_hash |-> Null,
      result |-> "none", ended_at_load |-> {}, detail |-> Null ]

FieldsList(docs) == [i \in DOMAIN docs |-> docs[i].fields]

IdsOf(docs) == {docs[i].id : i \in DOMAIN docs}

RowById(docs, id) == docs[CHOOSE i \in DOMAIN docs : docs[i].id = id]

\* The rows of `docs` whose index is in `keep`, in order.
RECURSIVE SelectRows(_, _)
SelectRows(docs, keep) ==
    IF docs = <<>> THEN <<>>
    ELSE LET rest == SelectRows(Tail(docs), {i - 1 : i \in keep \ {1}})
         IN IF 1 \in keep THEN <<Head(docs)>> \o rest ELSE rest

\* CommitProject as an UPDATE of every column from the session's row
CommitProjectWholeRow(t) == turns[t].proj

\* UPDATE of the columns in `dirty` of the project row at commit.
CommitProject(t) ==
    [col \in DOMAIN project |->
        IF col \in turns[t].dirty THEN turns[t].proj[col] ELSE project[col]]

\* INSERT of the session's new documents at commit; `sdocs` is the session's
\* list with the values to write.
CommitInserts(t, sdocs) ==
    SelectRows(sdocs, {i \in DOMAIN sdocs : sdocs[i].id \in turns[t].new_ids})

\* The request has returned: its session is closed, what is kept of it is
\* what it answered.
Finish(t, res) ==
    [turns[t] EXCEPT !.pc = "done", !.result = res, !.dirty = {}, !.new_ids = {},
                     !.docs = <<>>]

Active == {t \in TurnIds : turns[t].pc \notin {"idle", "done"}}

(***************************************************************************)
(* controllers/chat_controller.py : send_message                           *)
(***************************************************************************)
\* lines 496-502: get_project, then the mode switch (flushed, not committed)
Begin(t, mode) ==
    /\ t <= MaxTurns
    /\ turns[t].pc = "idle"
    /\ \A u \in TurnIds : u < t => turns[u].pc # "idle"
    /\ Cardinality(Active) < MaxActive
    /\ turns' = [turns EXCEPT ![t] =
          [ IdleTurn EXCEPT
              !.pc = "ensure", !.mode = mode,
              !.proj = [project EXCEPT !.mode = mode],
              !.dirty = IF project.mode # mode THEN {"mode"} ELSE {},
              !.ended_at_load =
                  {a \in DOMAIN attempts : attempts[a].state # "running"} ]]
    /\ UNCHANGED <<project, documents, chat_messages, attempts, mrg, gate, hsh, auth, projects>>

\* lines 79-99: the documents of the project as selected, and one new
\* document for every known type that is missing.
_ensure_documents_exist(t, existing_docs) ==
    LET existing_types == {existing_docs[i].type : i \in DOMAIN existing_docs}
        missing == {i \in DOMAIN DOCUMENT_TYPE_TITLES :
                       DOCUMENT_TYPE_TITLES[i] \notin existing_types}
        new_docs == [i \in DOMAIN DOCUMENT_TYPE_TITLES |->
                       [ id |-> <<t, i>>, type |-> DOCUMENT_TYPE_TITLES[i],
                         content |-> "", status |-> "pending", fields |-> Null ]]
    IN existing_docs \o SelectRows(new_docs, missing)

\* The first _ensure_documents_exist of the request (line 124 or 509) in a
\* doc turn, or in a design turn whose gate passes (lines 509-511).
EnsureDocs(t) ==
    /\ turns[t].pc = "ensure"
    /\ LET docs == _ensure_documents_exist(t, documents)
       IN /\ \/ turns[t].mode = "doc"
             \/ check_all_complete(build_extraction_state(docs))
          /\ turns' = [turns EXCEPT ![t] =
                [ @ EXCEPT !.pc = IF turns[t].mode = "doc" THEN "infer" ELSE "design",
                           !.docs = docs,
                           !.new_ids = IdsOf(docs) \ IdsOf(documents) ]]
    /\ UNCHANGED <<project, documents, chat_messages, attempts, mrg, gate, hsh, auth, projects>>

\* The keys of the dict build_extraction_state returns, in insertion order:
\* the document types in the order of their first document.
RECURSIVE StateKeys(_, _)
StateKeys(docs, seen) ==
    IF docs = <<>> THEN <<>>
    ELSE IF Head(docs).type \in seen THEN StateKeys(Tail(docs), seen)
    ELSE <<Head(docs).type>> \o StateKeys(Tail(docs), seen \cup {Head(docs).type})

\* lines 512-515: sum(1 for info in extraction_state.values() if not ...)
RECURSIVE CountIncomplete(_, _)
CountIncomplete(keys, extraction_state) ==
    IF keys = <<>> THEN 0
    ELSE (IF extraction_state[Head(keys)].is_complete # "True" THEN 1 ELSE 0)
         + CountIncomplete(Tail(keys), extraction_state)

\* lines 512-526: the detail of the HTTPException 422
GateFailureDetail(docs) ==
    LET extraction_state == build_extraction_state(docs)
        keys == StateKeys(docs, {})
    IN [ incomplete_count |-> CountIncomplete(keys, extraction_state),
         incomplete_docs |->
            SelectSeq(keys, LAMBDA ty : extraction_state[ty].is_complete # "True") ]

\* GateReject with the gate evaluated on the documents as stored, without
\* _ensure_documents_exist
GateRejectWithoutEnsure(t) ==
    /\ turns[t].pc = "ensure"
    /\ turns[t].mode = "design"
    /\ ~check_all_complete(build_extraction_state(documents))
    /\ turns' = [turns EXCEPT ![t] =
          [ Finish(t, "gate_rejected") EXCEPT
              !.detail = Some(GateFailureDetail(documents)) ]]
    /\ UNCHANGED <<project, documents, chat_messages, attempts, mrg, gate, hsh, auth, projects>>

\* GateReject with a commit in place of the rollback: the mode switch, the
\* ensured documents and the user's message are persisted.
GateRejectCommits(t) ==
    /\ turns[t].pc = "ensure"
    /\ turns[t].mode = "design"
    /\ LET docs == _ensure_documents_exist(t, documents)
       IN /\ ~check_all_complete(build_extraction_state(docs))
          /\ project' = CommitProject(t)
          /\ documents' = docs
          /\ chat_messages' = AddMessages(<<UserMessage>>)
          /\ turns' = [turns EXCEPT ![t] =
                [ Finish(t, "gate_rejected") EXCEPT
                    !.detail = Some(GateFailureDetail(docs)) ]]
    /\ UNCHANGED <<attempts, mrg, gate, hsh, auth, projects>>

\* lines 511-527: the gate fails, HTTPException 422; get_db rolls the
\* session back (database.py 43-45).
GateReject(t) ==
    /\ turns[t].pc = "ensure"
    /\ turns[t].mode = "design"
    /\ LET docs == _ensure_documents_exist(t, documents)
       IN /\ ~check_all_complete(build_extraction_state(docs))
          /\ turns' = [turns EXCEPT ![t] =
                [ Finish(t, "gate_rejected") EXCEPT
                    !.detail = Some(GateFailureDetail(docs)) ]]
    /\ UNCHANGED <<project, documents, chat_messages, attempts, mrg, gate, hsh, auth, projects>>

(***************************************************************************)
(* controllers/chat_controller.py : _handle_doc_mode                       *)
(***************************************************************************)
\* The ExtractionResult values the doc-agent returns in this model: an
\* optional section per document type.
PartialSection ==
    [k \in FieldKeys \cup {"is_complete"} |->
        IF k = "is_complete" THEN "False"
        ELSE IF k = "funding_stage" THEN "'a'" ELSE "None"]

CompleteSection ==
    [k \in FieldKeys \cup {"is_complete"} |->
        IF k = "is_complete" THEN "True"
        ELSE IF k = "funding_stage" THEN "'b'"
        ELSE IF k = "use_of_funds" THEN "['x']" ELSE "None"]

ExtractionResults ==
    { [ty \in DOCUMENT_TYPE_TO_ATTR |-> Some(CompleteSection)] }
    \cup { [ty \in DOCUMENT_TYPE_TO_ATTR |->
               IF ty = DOCUMENT_TYPE_TITLES[1] THEN Some(s) ELSE Null] :
            s \in {PartialSection, CompleteSection} }

\* getattr(extraction, attr_name, None) for the document's type
SectionFor(extraction, doc) ==
    IF doc.type \in DOMAIN extraction THEN extraction[doc.type] ELSE Null

\* lines 182-194: the document is reached by lines 196-230, which assign
\* doc.fields and doc.status and add the document to the session.
MergeWrites(doc, section) ==
    /\ doc.type \in DOCUMENT_TYPE_TO_ATTR
    /\ ~IsComplete(doc.fields)
    /\ section # Null

\* UPDATE of fields and status of the merged documents at commit; the other
\* columns of the row and the other rows keep their stored values.
CommitMerged(stored, merged, written) ==
    [i \in DOMAIN stored |->
        IF stored[i].id \in written
        THEN [stored[i] EXCEPT !.fields = RowById(merged, stored[i].id).fields,
                               !.status = RowById(merged, stored[i].id).status]
        ELSE stored[i]]

\* lines 141-244 with a doc-agent that answers `extraction`, then the commit
\* of get_db (database.py 42): user message, prompt, assistant message and
\* the merged documents become visible together.
DocFinish(t, extraction) ==
    /\ turns[t].pc = "infer"
    /\ LET docs == turns[t].docs
           merged == [i \in DOMAIN docs |->
                         MergeDoc(docs[i], SectionFor(extraction, docs[i]))]
           written == {docs[i].id : i \in
                         {j \in DOMAIN docs :
                            MergeWrites(docs[j], SectionFor(extraction, docs[j]))}}
           set_prompt == turns[t].proj.prompt = ""
           committed == [CommitProject(t) EXCEPT
                            !.prompt = IF set_prompt THEN "content" ELSE @]
       IN /\ project' = committed
          /\ documents' = CommitMerged(documents, merged, written)
                             \o CommitInserts(t, merged)
          /\ chat_messages' = AddMessages(<<UserMessage, AssistantReply>>)
          /\ turns' = [turns EXCEPT ![t] =
                Finish(t, "reply")]
    /\ UNCHANGED <<attempts, mrg, gate, hsh, auth, projects>>

\* lines 162-165: the doc-agent raises, HTTPException 502; get_db rolls the
\* session back (database.py 43-45).
DocAgentFails(t) ==
    /\ turns[t].pc = "infer"
    /\ turns' = [turns EXCEPT ![t] = Finish(t, "doc_agent_error")]
    /\ UNCHANGED <<project, documents, chat_messages, attempts, mrg, gate, hsh, auth, projects>>

(***************************************************************************)
(* controllers/chat_controller.py : _handle_design_mode                    *)
(***************************************************************************)
\* The select of line 79 run again in the same session: a row the session
\* already holds keeps the values it was loaded with, rows committed since
\* are added, and the session's own flushed inserts are part of the result.
Reselect(t) ==
    LET held == turns[t].docs
        seen == [i \in DOMAIN documents |->
                    IF documents[i].id \in IdsOf(held)
                    THEN RowById(held, documents[i].id) ELSE documents[i]]
    IN seen \o SelectRows(held, {i \in DOMAIN held : held[i].id \in turns[t].new_ids})

\* line 418: {doc.type: doc.fields or {}}
AllFields(docs) ==
    LET types == {docs[i].type : i \in DOMAIN docs}
        last(ty) == CHOOSE i \in DOMAIN docs :
                       /\ docs[i].type = ty
                       /\ \A j \in DOMAIN docs : docs[j].type = ty => j <= i
    IN [ty \in types |-> FieldsOrEmpty(docs[last(ty)].fields)]

\* line 422: not doc.content or doc.content.strip() == ""
NeedsContent(doc) == doc.content = ""

\* lines 419-423: the ids of the documents that get a prose call
DocsNeedingContent(docs) == {docs[i].id : i \in {j \in DOMAIN docs : NeedsContent(docs[j])}}

\* line 388
CurrentHash(docs) == compute_fields_hash(FieldsList(docs))

\* GenerationNeeded without the comparison: every design turn regenerates
GenerationAlways(current_hash, proj) == TRUE

\* line 389
GenerationNeeded(current_hash, proj) ==
    Some(current_hash) # proj.last_generation_fields_hash

\* DesignNoChanges with the status write of line 414 placed before the
\* comparison
DesignNoChangesSetsStatus(t) ==
    /\ turns[t].pc = "design"
    /\ LET docs == _ensure_documents_exist(t, Reselect(t))
           current_hash == CurrentHash(docs)
       IN /\ ~GenerationNeeded(current_hash, turns[t].proj)
          /\ project' = [CommitProject(t) EXCEPT !.status = "generating"]
          /\ documents' = documents \o CommitInserts(t, docs)
          /\ chat_messages' = AddMessages(<<UserMessage, NoChangesMessage>>)
          /\ turns' = [turns EXCEPT ![t] =
                [ Finish(t, "no_changes") EXCEPT
                    !.current_hash = Some(current_hash) ]]
    /\ UNCHANGED <<attempts, mrg, gate, hsh, auth, projects>>

\* lines 375-411: the fingerprint is the stored one; the turn ends with the
\* "no changes" message and get_db commits.
DesignNoChanges(t) ==
    /\ turns[t].pc = "design"
    /\ LET docs == _ensure_documents_exist(t, Reselect(t))
           current_hash == CurrentHash(docs)
       IN /\ ~GenerationNeeded(current_hash, turns[t].proj)
          /\ project' = CommitProject(t)
          /\ documents' = documents \o CommitInserts(t, docs)
          /\ chat_messages' = AddMessages(<<UserMessage, NoChangesMessage>>)
          /\ turns' = [turns EXCEPT ![t] =
                [ Finish(t, "no_changes") EXCEPT
                    !.current_hash = Some(current_hash) ]]
    /\ UNCHANGED <<attempts, mrg, gate, hsh, auth, projects>>

\* lines 375-434: the fingerprint differs; status generating is committed
\* with everything the session has written so far (line 416) and the
\* background task is created with the values of this session.
DesignTrigger(t) ==
    /\ turns[t].pc = "design"
    /\ LET docs == _ensure_documents_exist(t, Reselect(t))
           current_hash == CurrentHash(docs)
       IN /\ GenerationNeeded(current_hash, turns[t].proj)
          /\ project' = [CommitProject(t) EXCEPT !.status = "generating"]
          /\ documents' = documents \o CommitInserts(t, docs)
          /\ chat_messages' = AddMessages(<<UserMessage>>)
          /\ attempts' = Append(attempts,
                [ state |-> "running", turn |-> t,
                  all_fields |-> AllFields(docs),
                  current_hash |-> Some(current_hash),
                  docs_needing_content |-> DocsNeedingContent(docs),
                  failed_docs |-> {}, llms_failed |-> FALSE,
                  end_order |-> 0 ])
          /\ turns' = [turns EXCEPT ![t] =
                [ @ EXCEPT !.pc = "ack", !.docs = docs, !.dirty = {},
                           !.new_ids = {},
                           !.proj = [@ EXCEPT !.status = "generating"],
                           !.current_hash = Some(current_hash) ]]
    /\ UNCHANGED <<mrg, gate, hsh, auth, projects>>

\* lines 436-469: the "generating" acknowledgement, committed by get_db when
\* the request returns.
DesignAck(t) ==
    /\ turns[t].pc = "ack"
    /\ chat_messages' = AddMessages(<<GeneratingMessage>>)
    /\ turns' = [turns EXCEPT ![t] = Finish(t, "triggered")]
    /\ UNCHANGED <<project, documents, attempts, mrg, gate, hsh, auth, projects>>

(***************************************************************************)
(* controllers/chat_controller.py : _background_generate                   *)
(***************************************************************************)
\* The prose calls that raise in this model are those of the documents of
\* the first two types.
FailableDocs(a) ==
    {id \in attempts[a].docs_needing_content :
        \E i \in DOMAIN documents :
           /\ documents[i].id = id
           /\ documents[i].type \in {DOCUMENT_TYPE_TITLES[1], DOCUMENT_TYPE_TITLES[2]}}

EndOrder == Cardinality({a \in DOMAIN attempts : attempts[a].state # "running"}) + 1

\* StoreProse that persists no prose at all when one of the calls raised
StoreProseAllOrNothing(stored, a, failed) ==
    [i \in DOMAIN stored |->
        IF failed = {} /\ stored[i].id \in attempts[a].docs_needing_content
        THEN [stored[i] EXCEPT !.content = "prose", !.status = "ready"]
        ELSE stored[i]]

\* lines 310-318: a document whose prose call returned gets content and
\* status ready; one whose call raised is skipped.
StoreProse(stored, a, failed) ==
    [i \in DOMAIN stored |->
        IF stored[i].id \in attempts[a].docs_needing_content \ failed
        THEN [stored[i] EXCEPT !.content = "prose", !.status = "ready"]
        ELSE stored[i]]

\* StoreArtifacts that stores the result of _gen_llms as it is: None when
\* generate_llms_txt raised
StoreArtifactsClearsSummary(proj, a, llms_ok) ==
    [proj EXCEPT
        !.full_html = Some(a),
        !.llms_txt = IF llms_ok THEN Some(a) ELSE Null,
        !.ai_json = generate_ai_json(attempts[a].all_fields),
        !.last_generation_fields_hash = attempts[a].current_hash,
        !.status = "draft"]

\* StoreArtifacts with the export built from the documents as stored when
\* the task ends
StoreArtifactsCurrentExport(proj, a, llms_ok) ==
    [proj EXCEPT
        !.full_html = Some(a),
        !.llms_txt = IF llms_ok THEN Some(a) ELSE @,
        !.ai_json = generate_ai_json(AllFields(documents)),
        !.last_generation_fields_hash = attempts[a].current_hash,
        !.status = "draft"]

\* StoreArtifacts without line 324: the fingerprint is not stored
StoreArtifactsKeepsHash(proj, a, llms_ok) ==
    [proj EXCEPT
        !.full_html = Some(a),
        !.llms_txt = IF llms_ok THEN Some(a) ELSE @,
        !.ai_json = generate_ai_json(attempts[a].all_fields),
        !.status = "draft"]

\* lines 307, 320-325: the project columns written when the composite call
\* returned; `llms_ok` is whether generate_llms_txt returned.
StoreArtifacts(proj, a, llms_ok) ==
    [proj EXCEPT
        !.full_html = Some(a),
        !.llms_txt = IF llms_ok THEN Some(a) ELSE @,
        !.ai_json = generate_ai_json(attempts[a].all_fields),
        !.last_generation_fields_hash = attempts[a].current_hash,
        !.status = "draft"]

\* BgSuccess without the completion message of lines 329-334
BgSuccessSilent(a, failed, llms_ok) ==
    /\ attempts[a].state = "running"
    /\ failed \subseteq attempts[a].docs_needing_content
    /\ project' = StoreArtifacts(project, a, llms_ok)
    /\ documents' = StoreProse(documents, a, failed)
    /\ attempts' = [attempts EXCEPT ![a] =
          [ @ EXCEPT !.state = "ok", !.failed_docs = failed,
                     !.llms_failed = ~llms_ok, !.end_order = EndOrder ]]
    /\ UNCHANGED <<chat_messages, turns, mrg, gate, hsh, auth, projects>>

\* BgSuccess that writes the project row the triggering request holds
\* instead of the row re-fetched at line 302
BgSuccessReusesRequestRow(a, failed, llms_ok) ==
    /\ attempts[a].state = "running"
    /\ failed \subseteq attempts[a].docs_needing_content
    /\ project' = StoreArtifacts(turns[attempts[a].turn].proj, a, llms_ok)
    /\ documents' = StoreProse(documents, a, failed)
    /\ chat_messages' = AddMessages(<<DoneMessage>>)
    /\ attempts' = [attempts EXCEPT ![a] =
          [ @ EXCEPT !.state = "ok", !.failed_docs = failed,
                     !.llms_failed = ~llms_ok, !.end_order = EndOrder ]]
    /\ UNCHANGED <<turns, mrg, gate, hsh, auth, projects>>

\* BgSuccess that leaves the fingerprint unwritten when a prose call raised
BgSuccessSkipsHashOnProseFailure(a, failed, llms_ok) ==
    /\ attempts[a].state = "running"
    /\ failed \subseteq attempts[a].docs_needing_content
    /\ project' = [StoreArtifacts(project, a, llms_ok) EXCEPT
                      !.last_generation_fields_hash =
                          IF failed = {} THEN @
                          ELSE project.last_generation_fields_hash]
    /\ documents' = StoreProse(documents, a, failed)
    /\ chat_messages' = AddMessages(<<DoneMessage>>)
    /\ attempts' = [attempts EXCEPT ![a] =
          [ @ EXCEPT !.state = "ok", !.failed_docs = failed,
                     !.llms_failed = ~llms_ok, !.end_order = EndOrder ]]
    /\ UNCHANGED <<turns, mrg, gate, hsh, auth, projects>>

\* lines 291-337: generate_full_html returns; the prose calls of `failed`
\* raise; everything is written in one commit (line 336).
BgSuccess(a, failed, llms_ok) ==
    /\ attempts[a].state = "running"
    /\ failed \subseteq attempts[a].docs_needing_content
    /\ project' = StoreArtifacts(project, a, llms_ok)
    /\ documents' = StoreProse(documents, a, failed)
    /\ chat_messages' = AddMessages(<<DoneMessage>>)
    /\ attempts' = [attempts EXCEPT ![a] =
          [ @ EXCEPT !.state = "ok", !.failed_docs = failed,
                     !.llms_failed = ~llms_ok, !.end_order = EndOrder ]]
    /\ UNCHANGED <<turns, mrg, gate, hsh, auth, projects>>

\* BgFatal that stores the attempt's fingerprint as the success path does
BgFatalStoresHash(a) ==
    /\ attempts[a].state = "running"
    /\ project' = [project EXCEPT
          !.status = "draft",
          !.last_generation_fields_hash = attempts[a].current_hash]
    /\ chat_messages' = AddMessages(<<FailMessage>>)
    /\ attempts' = [attempts EXCEPT ![a] =
          [ @ EXCEPT !.state = "failed", !.end_order = EndOrder ]]
    /\ UNCHANGED <<documents, turns, mrg, gate, hsh, auth, projects>>

\* BgFatal without the status reset of line 345
BgFatalKeepsStatus(a) ==
    /\ attempts[a].state = "running"
    /\ chat_messages' = AddMessages(<<FailMessage>>)
    /\ attempts' = [attempts EXCEPT ![a] =
          [ @ EXCEPT !.state = "failed", !.end_order = EndOrder ]]
    /\ UNCHANGED <<project, documents, turns, mrg, gate, hsh, auth, projects>>

\* lines 339-353: generate_full_html raises; the project is re-read, its
\* status set to draft and the failure message added.
BgFatal(a) ==
    /\ attempts[a].state = "running"
    /\ project' = [project EXCEPT !.status = "draft"]
    /\ chat_messages' = AddMessages(<<FailMessage>>)
    /\ attempts' = [attempts EXCEPT ![a] =
          [ @ EXCEPT !.state = "failed", !.end_order = EndOrder ]]
    /\ UNCHANGED <<documents, turns, mrg, gate, hsh, auth, projects>>

(***************************************************************************)
(* The system: requests on one project and their background tasks          *)
(***************************************************************************)
Init ==
    /\ project = NewProject
    /\ documents = <<>>
    /\ chat_messages = [m \in MessageValues |-> 0]
    /\ turns = [t \in TurnIds |-> IdleTurn]
    /\ attempts = <<>>
    /\ mrg = Null
    /\ gate = Null
    /\ hsh = Null
    /\ auth = Null
    /\ projects = Null

Next ==
    \/ \E t \in TurnIds, mode \in {"doc", "design"} : Begin(t, mode)
    \/ \E t \in TurnIds : EnsureDocs(t)
    \/ \E t \in TurnIds : GateReject(t)
    \/ \E t \in TurnIds, extraction \in ExtractionResults : DocFinish(t, extraction)
    \/ \E t \in TurnIds : DocAgentFails(t)
    \/ \E t \in TurnIds : DesignNoChanges(t)
    \/ \E t \in TurnIds : DesignTrigger(t)
    \/ \E t \in TurnIds : DesignAck(t)
    \/ \E a \in DOMAIN attempts, llms_ok \in BOOLEAN :
          \E failed \in SmallSubsets(FailableDocs(a), MaxProseFailures) :
             BgSuccess(a, failed, llms_ok)
    \/ \E a \in DOMAIN attempts : BgFatal(a)

Spec == Init /\ [][Next]_vars

(***************************************************************************)
(* controllers/chat_controller.py : send_message, with the requests that   *)
(* are rejected before a handler runs (SpecEntry): any caller, any project *)
(* id, any mode token.                                                     *)
(***************************************************************************)
Users == {"owner", "other"}
ProjectIds == {"p1", "p2"}
ValidModes == {"doc", "design"}
ModeTokens == ValidModes \cup {"chat"}

\* project_controller.get_project: whether the project is found, that is,
\* it exists and is the caller's
get_project(user, project_id) ==
    /\ project_id = project.id
    /\ project.user_id = user

\* A request that was rejected on entry: nothing was loaded or written.
Rejected(user, project_id, mode, res) ==
    [ IdleTurn EXCEPT !.pc = "done", !.user = user, !.project_id = project_id,
                      !.mode = mode, !.result = res ]

\* InvalidMode that takes the mode token to the project before validating it
InvalidModeStoresMode(t, user, project_id, mode) ==
    /\ t <= MaxTurns
    /\ turns[t].pc = "idle"
    /\ \A u \in TurnIds : u < t => turns[u].pc # "idle"
    /\ mode \notin ValidModes
    /\ project' = IF get_project(user, project_id)
                  THEN [project EXCEPT !.mode = mode] ELSE project
    /\ turns' = [turns EXCEPT ![t] = Rejected(user, project_id, mode, "invalid_mode")]
    /\ UNCHANGED <<documents, chat_messages, attempts, mrg, gate, hsh, auth, projects>>

\* lines 490-494: the mode token is not 'doc' or 'design'; HTTPException 400
\* is raised before get_project is called.
InvalidMode(t, user, project_id, mode) ==
    /\ t <= MaxTurns
    /\ turns[t].pc = "idle"
    /\ \A u \in TurnIds : u < t => turns[u].pc # "idle"
    /\ mode \notin ValidModes
    /\ turns' = [turns EXCEPT ![t] = Rejected(user, project_id, mode, "invalid_mode")]
    /\ UNCHANGED <<project, documents, chat_messages, attempts, mrg, gate, hsh, auth, projects>>

\* NotFound with the mode switch of lines 499-502 made on the row that
\* db.get returned, before the owner is compared
NotFoundSwitchesMode(t, user, project_id, mode) ==
    /\ t <= MaxTurns
    /\ turns[t].pc = "idle"
    /\ \A u \in TurnIds : u < t => turns[u].pc # "idle"
    /\ mode \in ValidModes
    /\ ~get_project(user, project_id)
    /\ project' = IF project_id = project.id
                  THEN [project EXCEPT !.mode = mode] ELSE project
    /\ turns' = [turns EXCEPT ![t] = Rejected(user, project_id, mode, "not_found")]
    /\ UNCHANGED <<documents, chat_messages, attempts, mrg, gate, hsh, auth, projects>>

\* line 496 with project_controller.get_project lines 70-72: the project
\* does not exist or is not the caller's; HTTPException 404.
NotFound(t, user, project_id, mode) ==
    /\ t <= MaxTurns
    /\ turns[t].pc = "idle"
    /\ \A u \in TurnIds : u < t => turns[u].pc # "idle"
    /\ mode \in ValidModes
    /\ ~get_project(user, project_id)
    /\ turns' = [turns EXCEPT ![t] = Rejected(user, project_id, mode, "not_found")]
    /\ UNCHANGED <<project, documents, chat_messages, attempts, mrg, gate, hsh, auth, projects>>

NextEntry ==
    \/ Next
    \/ \E t \in TurnIds, user \in Users, project_id \in ProjectIds,
          mode \in ModeTokens : InvalidMode(t, user, project_id, mode)
    \/ \E t \in TurnIds, user \in Users, project_id \in ProjectIds,
          mode \in ModeTokens : NotFound(t, user, project_id, mode)

SpecEntry == Init /\ [][NextEntry]_vars

(***************************************************************************)
(* The same system with MoreTurns further requests (SpecLong).             *)
(***************************************************************************)
\* lines 496-502 for a request after the first MaxTurns
BeginMore(t, mode) ==
    /\ t > MaxTurns
    /\ turns[t].pc = "idle"
    /\ \A u \in TurnIds : u < t => turns[u].pc # "idle"
    /\ Cardinality(Active) < MaxActive
    /\ turns' = [turns EXCEPT ![t] =
          [ IdleTurn EXCEPT
              !.pc = "ensure", !.mode = mode,
              !.proj = [project EXCEPT !.mode = mode],
              !.dirty = IF project.mode # mode THEN {"mode"} ELSE {},
              !.ended_at_load =
                  {a \in DOMAIN attempts : attempts[a].state # "running"} ]]
    /\ UNCHANGED <<project, documents, chat_messages, attempts, mrg, gate, hsh, auth, projects>>

NextLong ==
    \/ Next
    \/ \E t \in TurnIds, mode \in {"doc", "design"} : BeginMore(t, mode)

SpecLong == Init /\ [][NextLong]_vars

(***************************************************************************)
(* The same system with background tasks that end (SpecLive): the event    *)
(* loop runs every task it created, and every generation call returns or   *)
(* raises, so a running task eventually takes its last step.               *)
(***************************************************************************)
\* lines 291-355: the gather has returned or raised and the task commits
BgEnds ==
    \E a \in DOMAIN attempts :
        \/ BgFatal(a)
        \/ \E llms_ok \in BOOLEAN :
              \E failed \in SmallSubsets(FailableDocs(a), MaxProseFailures) :
                 BgSuccess(a, failed, llms_ok)

SpecLive == Init /\ [][Next]_vars /\ WF_vars(BgEnds)

(***************************************************************************)
(* controllers/generation_controller.py : generate_documents, running next *)
(* to the turns and the background tasks (SpecDocs).  The documents it     *)
(* creates have the ids <<0, n>>.                                          *)
(***************************************************************************)
\* The doc_types lists of the requests in this model: one of the nine known
\* types, or one type outside of them (the request takes any list of
\* strings, schemas/generation.py).
DocTypeRequests == { <<DOCUMENT_TYPE_TITLES[1]>>, <<"other">> }

GeneratedIds == {id \in IdsOf(documents) : id[1] = 0}

\* lines 55-71: one new document per requested type, with the placeholder
\* content, status generating and no fields, committed at line 71.
generate_documents(doc_types) ==
    /\ Cardinality(GeneratedIds) + Len(doc_types) <= MaxGenerateDocuments
    /\ documents' = documents \o
          [i \in DOMAIN doc_types |->
              [ id |-> <<0, Cardinality(GeneratedIds) + i>>, type |-> doc_types[i],
                content |-> "Generating...", status |-> "generating",
                fields |-> Null ]]
    /\ UNCHANGED <<project, chat_messages, turns, attempts, mrg, gate, hsh, auth, projects>>

\* lines 75-87: the content of a created document is generated and
\* committed with status ready, or the call raises and status error is
\* committed.
GenerateDocumentContent(id, ok) ==
    /\ id \in GeneratedIds
    /\ RowById(documents, id).status = "generating"
    /\ documents' = [i \in DOMAIN documents |->
          IF documents[i].id # id THEN documents[i]
          ELSE IF ok THEN [documents[i] EXCEPT !.content = "prose", !.status = "ready"]
          ELSE [documents[i] EXCEPT !.status = "error"]]
    /\ UNCHANGED <<project, chat_messages, turns, attempts, mrg, gate, hsh, auth, projects>>

NextDocs ==
    \/ Next
    \/ \E doc_types \in DocTypeRequests : generate_documents(doc_types)
    \/ \E id \in GeneratedIds, ok \in BOOLEAN : GenerateDocumentContent(id, ok)

SpecDocs == Init /\ [][NextDocs]_vars

(***************************************************************************)
(* The merge of one document, applied to every section the doc-agent can   *)
(* return (SpecMerge).  mrg.existing is the document before the last       *)
(* merge, mrg.section the section merged, mrg.doc the document after it.   *)
(***************************************************************************)
\* _ensure_documents_exist lines 87-94 (a known type) and
\* generation_controller.generate_documents lines 61-67 (any type)
FreshDocs ==
    { [ id |-> <<1, 6>>, type |-> "funding-requirements", content |-> "",
        status |-> "pending", fields |-> Null ],
      [ id |-> <<1, 10>>, type |-> "other", content |-> "Generating...",
        status |-> "generating", fields |-> Null ] }

OptionalSections == {Null} \cup {Some(s) : s \in Sections}

InitMerge ==
    /\ project = NewProject
    /\ documents = <<>>
    /\ chat_messages = [m \in MessageValues |-> 0]
    /\ turns = [t \in TurnIds |-> IdleTurn]
    /\ attempts = <<>>
    /\ gate = Null
    /\ hsh = Null
    /\ auth = Null
    /\ projects = Null
    /\ mrg \in {[existing |-> d, section |-> Null, doc |-> d] : d \in FreshDocs}

MergeStep(section) ==
    /\ mrg' = [existing |-> mrg.doc, section |-> section,
               doc |-> MergeDoc(mrg.doc, section)]
    /\ UNCHANGED <<project, documents, chat_messages, turns, attempts, gate, hsh, auth, projects>>

NextMerge == \E section \in OptionalSections : MergeStep(section)

SpecMerge == InitMerge /\ [][NextMerge]_vars

(***************************************************************************)
(* The completion gate, applied to the documents a project can hold        *)
(* (SpecGate).  gate.present says of every known type whether the project  *)
(* has no document of it, one that is not complete, or a complete one;     *)
(* gate.extra whether it has a document of another type, which             *)
(* generate_documents creates without fields.                              *)
(***************************************************************************)
GateFields(p) ==
    IF p = "complete" THEN Some(MergeFields(EmptyBag, CompleteSection))
    ELSE Some(MergeFields(EmptyBag, PartialSection))

GateDocs(present, extra) ==
    LET known == [i \in DOMAIN DOCUMENT_TYPE_TITLES |->
                    [ id |-> <<1, i>>, type |-> DOCUMENT_TYPE_TITLES[i],
                      content |-> "", status |-> "pending",
                      fields |-> GateFields(present[DOCUMENT_TYPE_TITLES[i]]) ]]
        kept == SelectRows(known, {i \in DOMAIN known :
                                     present[DOCUMENT_TYPE_TITLES[i]] # "absent"})
    IN IF extra
       THEN Append(kept, [ id |-> <<1, 10>>, type |-> "other",
                           content |-> "Generating...", status |-> "generating",
                           fields |-> Null ])
       ELSE kept

InitGate ==
    /\ project = NewProject
    /\ documents = <<>>
    /\ chat_messages = [m \in MessageValues |-> 0]
    /\ turns = [t \in TurnIds |-> IdleTurn]
    /\ attempts = <<>>
    /\ mrg = Null
    /\ hsh = Null
    /\ auth = Null
    /\ projects = Null
    /\ gate \in { [present |-> p, extra |-> e, evaluated |-> FALSE,
                   all_complete |-> FALSE] :
                  p \in [DOCUMENT_TYPE_TO_ATTR -> {"absent", "partial", "complete"}],
                  e \in BOOLEAN }

GateEvaluate ==
    /\ ~gate.evaluated
    /\ gate' = [gate EXCEPT
          !.evaluated = TRUE,
          !.all_complete = check_all_complete(
              build_extraction_state(GateDocs(gate.present, gate.extra)))]
    /\ UNCHANGED <<project, documents, chat_messages, turns, attempts, mrg, hsh, auth, projects>>

NextGate == GateEvaluate

SpecGate == InitGate /\ [][NextGate]_vars

(***************************************************************************)
(* core/ai_generators.py : compute_fields_hash on dicts that keep the      *)
(* order in which their keys were inserted (SpecHash).  A dict is a        *)
(* sequence of <<key, value>> pairs with distinct keys; hsh.a and hsh.b    *)
(* are two lists of optional dicts, hsh.ha and hsh.hb their fingerprints.  *)
(***************************************************************************)
MaxHashDocs == 2

\* The keys of the dicts of this specification, as sort_keys orders them
SortedKeys == <<"funding_stage", "is_complete">>

HashValues(k) == IF k = "is_complete" THEN {"True", "False"} ELSE {"'a'"}

\* Every dict over the keys, with every insertion order
OrderedDicts ==
    LET one == UNION { { << <<k, v>> >> : v \in HashValues(k) } :
                       k \in RangeOf(SortedKeys) }
        two == { << d[1], e[1] >> : d \in one, e \in one }
    IN {<<>>} \cup one \cup { d \in two : d[1][1] # d[2][1] }

OptionalDicts == {Null} \cup {Some(d) : d \in OrderedDicts}

DictLists ==
    UNION { [1..n -> OptionalDicts] : n \in 0..MaxHashDocs }

\* The key/value pairs of a dict, without their order
PairsOf(d) == RangeOf(d)

\* json.dumps of a dict without sort_keys: the pairs in insertion order
DumpDictInsertionOrder(d) == d

\* json.dumps(..., sort_keys=True) of a dict: the pairs in the order of
\* their keys
DumpDict(d) ==
    LET present == SelectSeq(SortedKeys, LAMBDA k : \E i \in DOMAIN d : d[i][1] = k)
    IN [i \in DOMAIN present |->
          d[CHOOSE j \in DOMAIN d : d[j][1] = present[i]]]

\* line 242: the canonical text of the list; None is null
JsonDumps(documents_fields) ==
    [i \in DOMAIN documents_fields |->
        IF documents_fields[i] = Null THEN << <<"null", "null">> >>
        ELSE <<  <<"{", "}">> >> \o DumpDict(documents_fields[i][1])]

\* line 243: the digest, taken as free of collisions
Sha256(text) == <<"sha256", text>>

\* lines 233-243 on ordered dicts
FieldsHashOf(documents_fields) == Sha256(JsonDumps(documents_fields))

InitHash ==
    /\ project = NewProject
    /\ documents = <<>>
    /\ chat_messages = [m \in MessageValues |-> 0]
    /\ turns = [t \in TurnIds |-> IdleTurn]
    /\ attempts = <<>>
    /\ mrg = Null
    /\ gate = Null
    /\ auth = Null
    /\ projects = Null
    /\ hsh \in { [a |-> x, b |-> y, done |-> FALSE, ha |-> Null, hb |-> Null] :
                 x \in DictLists, y \in DictLists }

HashBoth ==
    /\ ~hsh.done
    /\ hsh' = [hsh EXCEPT !.done = TRUE,
                          !.ha = Some(FieldsHashOf(hsh.a)),
                          !.hb = Some(FieldsHashOf(hsh.b))]
    /\ UNCHANGED <<project, documents, chat_messages, turns, attempts, mrg, gate, auth, projects>>

NextHash == HashBoth

SpecHash == InitHash /\ [][NextHash]_vars

(***************************************************************************)
(* controllers/auth_controller.py : handle_refresh (SpecAuth).             *)
(* auth.tokens are the committed rows of refresh_tokens, in the order they *)
(* were created; the raw value of a token is its position, 0 is a value    *)
(* that was never issued.  auth.calls[c] is the request c of /refresh with *)
(* its own session: the row it selected stays as it was read.  Users are   *)
(* active and tokens have not expired.                                     *)
(***************************************************************************)
MaxRefreshCalls == 3

CallIds == 1..MaxRefreshCalls

\* core/security.py create_refresh_token: a new row, not revoked
RefreshToken(user_id) == [user_id |-> user_id, is_revoked |-> FALSE]

IdleCall == [pc |-> "idle", token |-> 0, seen |-> Null, result |-> "none"]

\* Two logins of one user and one of another (issue_tokens), committed.
InitAuth ==
    /\ project = NewProject
    /\ documents = <<>>
    /\ chat_messages = [m \in MessageValues |-> 0]
    /\ turns = [t \in TurnIds |-> IdleTurn]
    /\ attempts = <<>>
    /\ mrg = Null
    /\ gate = Null
    /\ hsh = Null
    /\ projects = Null
    /\ auth = [ tokens |-> << RefreshToken("u1"), RefreshToken("u1"),
                              RefreshToken("u2") >>,
                calls |-> [c \in CallIds |-> IdleCall] ]

AuthFrame == UNCHANGED <<project, documents, chat_messages, turns, attempts,
                         mrg, gate, hsh, projects>>

\* lines 200-207: the row with the hash of the presented value is selected
RefreshSelect(c, value) ==
    /\ auth.calls[c].pc = "idle"
    /\ \A d \in CallIds : d < c => auth.calls[d].pc # "idle"
    /\ auth' = [auth EXCEPT !.calls[c] =
          [ @ EXCEPT !.pc = "selected", !.token = value,
                     !.seen = IF value \in DOMAIN auth.tokens
                              THEN Some(auth.tokens[value]) ELSE Null ]]
    /\ AuthFrame

\* lines 209-210: no row; 401
RefreshInvalid(c) ==
    /\ auth.calls[c].pc = "selected"
    /\ auth.calls[c].seen = Null
    /\ auth' = [auth EXCEPT !.calls[c] = [ @ EXCEPT !.pc = "done", !.result = "invalid" ]]
    /\ AuthFrame

\* lines 213-225: the row is revoked; the UPDATE of the user's tokens is
\* executed in the transaction, then HTTPException 401 is raised and get_db
\* rolls the transaction back (database.py 43-45).
RefreshReuse(c) ==
    /\ auth.calls[c].pc = "selected"
    /\ auth.calls[c].seen # Null
    /\ auth.calls[c].seen[1].is_revoked
    /\ auth' = [auth EXCEPT !.calls[c] =
          [ @ EXCEPT !.pc = "done", !.result = "reuse_detected" ]]
    /\ AuthFrame

\* lines 227-240: the row is not revoked as read; it is revoked, a new
\* token is created (issue_tokens) and get_db commits both.
RefreshRotate(c) ==
    /\ auth.calls[c].pc = "selected"
    /\ auth.calls[c].seen # Null
    /\ ~auth.calls[c].seen[1].is_revoked
    /\ auth' = [auth EXCEPT
          !.tokens = Append(
              [@ EXCEPT ![auth.calls[c].token] = [@ EXCEPT !.is_revoked = TRUE]],
              RefreshToken(auth.calls[c].seen[1].user_id)),
          !.calls[c] = [ @ EXCEPT !.pc = "done", !.result = "ok" ]]
    /\ AuthFrame

NextAuth ==
    \/ \E c \in CallIds, value \in 0..Len(auth.tokens) : RefreshSelect(c, value)
    \/ \E c \in CallIds : RefreshInvalid(c)
    \/ \E c \in CallIds : RefreshReuse(c)
    \/ \E c \in CallIds : RefreshRotate(c)

SpecAuth == InitAuth /\ [][NextAuth]_vars

(***************************************************************************)
(* controllers/chat_controller.py : _background_generate against the other *)
(* writers of the project row (SpecTask): create_share_link,               *)
(* update_project and delete_project.  The end of the task is taken in two *)
(* steps, the re-fetch of the project in the task's session and the        *)
(* commit; the UPDATE of the commit carries the columns whose value        *)
(* differs from the re-fetched one.  A deleted project is Null.  A design  *)
(* turn is one step here.                                                  *)
(***************************************************************************)
MaxTaskAttempts == 2

\* The documents after an extraction turn that completed all nine types
\* (_ensure_documents_exist, then the merge of lines 182-230).
CompleteDocs ==
    [i \in DOMAIN DOCUMENT_TYPE_TITLES |->
        MergeDoc([ id |-> <<1, i>>, type |-> DOCUMENT_TYPE_TITLES[i],
                   content |-> "", status |-> "pending", fields |-> Null ],
                 Some(CompleteSection))]

NoMessages == [m \in MessageValues |-> 0]

InitTask ==
    /\ project = [NewProject EXCEPT !.prompt = "content"]
    /\ documents = CompleteDocs
    /\ chat_messages = [NoMessages EXCEPT ![UserMessage] = 1, ![AssistantReply] = 1]
    /\ turns = [t \in TurnIds |-> IdleTurn]
    /\ attempts = <<>>
    /\ mrg = Null
    /\ gate = Null
    /\ hsh = Null
    /\ auth = Null
    /\ projects = Null

TaskFrame == UNCHANGED <<turns, mrg, gate, hsh, auth, projects>>

\* send_message lines 496-528 and _handle_design_mode lines 375-469 of a
\* design turn whose gate passes and whose fingerprint differs
TaskTrigger ==
    /\ project # Null
    /\ Len(attempts) < MaxTaskAttempts
    /\ check_all_complete(build_extraction_state(documents))
    /\ GenerationNeeded(CurrentHash(documents), project)
    /\ project' = [project EXCEPT !.mode = "design", !.status = "generating"]
    /\ chat_messages' = AddMessages(<<UserMessage, GeneratingMessage>>)
    /\ attempts' = Append(attempts,
          [ state |-> "running", turn |-> 0,
            all_fields |-> AllFields(documents),
            current_hash |-> Some(CurrentHash(documents)),
            docs_needing_content |-> DocsNeedingContent(documents),
            failed_docs |-> {}, llms_failed |-> FALSE, end_order |-> 0,
            composite_ok |-> FALSE, loaded |-> Null ])
    /\ UNCHANGED documents
    /\ TaskFrame

\* line 302 (the gather returned) or line 341 (it raised): db.get(Project)
\* finds the project
TaskRefetch(a, composite_ok) ==
    /\ attempts[a].state = "running"
    /\ project # Null
    /\ attempts' = [attempts EXCEPT ![a] =
          [ @ EXCEPT !.state = "fetched", !.composite_ok = composite_ok,
                     !.loaded = Some(project) ]]
    /\ UNCHANGED <<project, documents, chat_messages>>
    /\ TaskFrame

\* TaskFindsNothing that stores the failure message for the project id it
\* was given
TaskFindsNothingStoresMessage(a) ==
    /\ attempts[a].state = "running"
    /\ project = Null
    /\ attempts' = [attempts EXCEPT ![a] = [ @ EXCEPT !.state = "dropped" ]]
    /\ chat_messages' = AddMessages(<<FailMessage>>)
    /\ UNCHANGED <<project, documents>>
    /\ TaskFrame

\* lines 303-305 and 342: db.get(Project) returns None; the task returns
\* without a commit.
TaskFindsNothing(a) ==
    /\ attempts[a].state = "running"
    /\ project = Null
    /\ attempts' = [attempts EXCEPT ![a] = [ @ EXCEPT !.state = "dropped" ]]
    /\ UNCHANGED <<project, documents, chat_messages>>
    /\ TaskFrame

\* CommitChanged that leaves a status shared, written by another request,
\* in place
CommitChangedKeepsShared(loaded, target) ==
    [col \in DOMAIN project |->
        IF target[col] # loaded[col] /\ ~(col = "status" /\ project[col] = "shared")
        THEN target[col] ELSE project[col]]

\* The UPDATE of the project row at the commit of a session that loaded the
\* row as `loaded` and assigned the values of `target`
CommitChanged(loaded, target) ==
    [col \in DOMAIN project |->
        IF target[col] # loaded[col] THEN target[col] ELSE project[col]]

\* line 336 after lines 307-334, or line 353 after lines 343-352: the
\* commit of the task
TaskCommit(a, llms_ok) ==
    /\ attempts[a].state = "fetched"
    /\ project # Null
    /\ LET loaded == attempts[a].loaded[1]
       IN IF attempts[a].composite_ok
          THEN /\ project' = CommitChanged(loaded, StoreArtifacts(loaded, a, llms_ok))
               /\ documents' = StoreProse(documents, a, {})
               /\ chat_messages' = AddMessages(<<DoneMessage>>)
               /\ attempts' = [attempts EXCEPT ![a] =
                     [ @ EXCEPT !.state = "ok", !.llms_failed = ~llms_ok,
                                !.end_order = EndOrder ]]
          ELSE /\ ~llms_ok
               /\ project' = CommitChanged(loaded, [loaded EXCEPT !.status = "draft"])
               /\ chat_messages' = AddMessages(<<FailMessage>>)
               /\ attempts' = [attempts EXCEPT ![a] =
                     [ @ EXCEPT !.state = "failed", !.end_order = EndOrder ]]
               /\ UNCHANGED documents
    /\ TaskFrame

\* line 336 or 353 when the project was deleted after the re-fetch: the
\* UPDATE finds no row and the commit fails; nothing is written (the
\* failure of the success path is caught at line 339, where the session
\* cannot be used any more, line 354).
TaskCommitFails(a) ==
    /\ attempts[a].state = "fetched"
    /\ project = Null
    /\ attempts' = [attempts EXCEPT ![a] = [ @ EXCEPT !.state = "dropped" ]]
    /\ UNCHANGED <<project, documents, chat_messages>>
    /\ TaskFrame

\* share_controller.create_share_link lines 48-54
create_share_link ==
    /\ project # Null
    /\ project' = [project EXCEPT !.status = "shared"]
    /\ UNCHANGED <<documents, chat_messages, attempts>>
    /\ TaskFrame

\* project_controller.update_project lines 80-83 with a status
update_project(project_status) ==
    /\ project # Null
    /\ project' = [project EXCEPT !.status = project_status]
    /\ UNCHANGED <<documents, chat_messages, attempts>>
    /\ TaskFrame

\* project_controller.delete_project lines 93-96: the project row, and by
\* the cascade of models/project.py 38-49 its documents and messages
delete_project ==
    /\ project # Null
    /\ project' = Null
    /\ documents' = <<>>
    /\ chat_messages' = NoMessages
    /\ UNCHANGED attempts
    /\ TaskFrame

\* api/v1/routers/public.py line 46: the project is returned by the public
\* username routes
PublicVisible(proj) == proj # Null /\ proj.status = "shared"

NextTask ==
    \/ TaskTrigger
    \/ \E a \in DOMAIN attempts, composite_ok \in BOOLEAN : TaskRefetch(a, composite_ok)
    \/ \E a \in DOMAIN attempts : TaskFindsNothing(a)
    \/ \E a \in DOMAIN attempts, llms_ok \in BOOLEAN : TaskCommit(a, llms_ok)
    \/ \E a \in DOMAIN attempts : TaskCommitFails(a)
    \/ create_share_link
    \/ \E project_status \in {"draft", "shared"} : update_project(project_status)
    \/ delete_project

SpecTask == InitTask /\ [][NextTask]_vars

(***************************************************************************)
(* controllers/project_controller.py : create_project and update_project   *)
(* (SpecProjects).  Every call runs in its own transaction; create_project *)
(* selects, then inserts; the table has the unique constraint              *)
(* uq_user_project_name on (user_id, name), which compares names exactly.  *)
(***************************************************************************)
MaxProjectCalls == 3

ProjectCallIds == 1..MaxProjectCalls

ProjectNames == {"Deck", "deck", "Plan"}

\* name.lower() and func.lower(Project.name)
lower(name) ==
    IF name = "Deck" THEN "deck" ELSE IF name = "Plan" THEN "plan" ELSE name

IdleProjectCall ==
    [pc |-> "idle", user |-> "", name |-> "", found |-> FALSE, result |-> "none"]

InitProjects ==
    /\ project = NewProject
    /\ documents = <<>>
    /\ chat_messages = [m \in MessageValues |-> 0]
    /\ turns = [t \in TurnIds |-> IdleTurn]
    /\ attempts = <<>>
    /\ mrg = Null
    /\ gate = Null
    /\ hsh = Null
    /\ auth = Null
    /\ projects = [ rows |-> <<>>,
                    calls |-> [c \in ProjectCallIds |-> IdleProjectCall] ]

ProjectsFrame == UNCHANGED <<project, documents, chat_messages, turns, attempts,
                             mrg, gate, hsh, auth>>

\* models/project.py 16-18: a row of the user other than row `self` has
\* exactly this name
UniqueViolation(user, name, self) ==
    \E i \in DOMAIN projects.rows :
        /\ i # self
        /\ projects.rows[i].user_id = user
        /\ projects.rows[i].name = name

\* lines 39-45: the rows the select of get_project_by_name matches
get_project_by_name(user, project_name) ==
    {i \in DOMAIN projects.rows :
        /\ projects.rows[i].user_id = user
        /\ lower(projects.rows[i].name) = lower(project_name)}

\* create_project lines 12-14: the select for a project of the user with
\* this name, ignoring case
CreateSelect(c, user, name) ==
    /\ projects.calls[c].pc = "idle"
    /\ \A d \in ProjectCallIds : d < c => projects.calls[d].pc # "idle"
    /\ projects' = [projects EXCEPT !.calls[c] =
          [ @ EXCEPT !.pc = "selected", !.user = user, !.name = name,
                     !.found = get_project_by_name(user, name) # {} ]]
    /\ ProjectsFrame

\* create_project lines 15-16: a project was found; 400
CreateRejected(c) ==
    /\ projects.calls[c].pc = "selected"
    /\ projects.calls[c].found
    /\ projects' = [projects EXCEPT !.calls[c] =
          [ @ EXCEPT !.pc = "done", !.result = "already_exists" ]]
    /\ ProjectsFrame

\* create_project lines 18-29: no project was found; the row is inserted
\* and get_db commits, unless the unique constraint refuses the insert.
CreateInsert(c) ==
    /\ projects.calls[c].pc = "selected"
    /\ ~projects.calls[c].found
    /\ LET user == projects.calls[c].user
           name == projects.calls[c].name
       IN IF UniqueViolation(user, name, 0)
          THEN projects' = [projects EXCEPT !.calls[c] =
                  [ @ EXCEPT !.pc = "done", !.result = "integrity_error" ]]
          ELSE projects' = [projects EXCEPT
                  !.rows = Append(@, [user_id |-> user, name |-> name]),
                  !.calls[c] = [ @ EXCEPT !.pc = "done", !.result = "created" ]]
    /\ ProjectsFrame

\* update_project lines 76-90 with a name: get_project, the assignment and
\* the flush, committed by get_db unless the unique constraint refuses the
\* update.
update_project_name(c, user, project_id, name) ==
    /\ projects.calls[c].pc = "idle"
    /\ \A d \in ProjectCallIds : d < c => projects.calls[d].pc # "idle"
    /\ LET owned == project_id \in DOMAIN projects.rows
                      /\ projects.rows[project_id].user_id = user
           res == IF ~owned THEN "not_found"
                  ELSE IF UniqueViolation(user, name, project_id)
                  THEN "integrity_error" ELSE "updated"
       IN projects' = [projects EXCEPT
             !.rows = IF res = "updated"
                      THEN [@ EXCEPT ![project_id] = [@ EXCEPT !.name = name]]
                      ELSE @,
             !.calls[c] = [ @ EXCEPT !.pc = "done", !.user = user, !.name = name,
                                     !.result = res ]]
    /\ ProjectsFrame

NextProjects ==
    \/ \E c \in ProjectCallIds, user \in Users, name \in ProjectNames :
          CreateSelect(c, user, name)
    \/ \E c \in ProjectCallIds : CreateRejected(c)
    \/ \E c \in ProjectCallIds : CreateInsert(c)
    \/ \E c \in ProjectCallIds, user \in Users, project_id \in 1..MaxProjectCalls,
          name \in ProjectNames : update_project_name(c, user, project_id, name)

SpecProjects == InitProjects /\ [][NextProjects]_vars

(***************************************************************************)
(* Properties                                                              *)
(***************************************************************************)
\* The design turn d has made the fingerprint comparison of line 389.
PastCheck(d) == turns[d].mode = "design" /\ turns[d].current_hash # Null

\* The design turn d created a background task.
Triggered(d) == \E b \in DOMAIN attempts : attempts[b].turn = d

\* Attempt a is the last one that committed its artifacts among the attempts
\* in S.
IsLatestOk(a, S) ==
    /\ a \in S
    /\ attempts[a].state = "ok"
    /\ \A b \in S : attempts[b].state = "ok" =>
          attempts[b].end_order <= attempts[a].end_order

\* Attempt a ends with its composite call returned / raised in this step.
Succeeds(a) == attempts[a].state = "running" /\ attempts'[a].state = "ok"
Fails(a) == attempts[a].state = "running" /\ attempts'[a].state = "failed"

C4_AtMostOncePerFingerprint ==
    \A a \in DOMAIN attempts : \A b \in DOMAIN attempts :
        a # b => attempts[a].current_hash # attempts[b].current_hash

\* C4 amended: an attempt for a fingerprint is started only by a turn that
\* read a different stored fingerprint.
C4_StartedOnlyOnChange ==
    \A b \in DOMAIN attempts :
        attempts[b].current_hash
            # turns[attempts[b].turn].proj.last_generation_fields_hash

C4_Witness ==
    \E a \in DOMAIN attempts : \E b \in DOMAIN attempts :
        /\ a # b
        /\ attempts[a].current_hash = attempts[b].current_hash
        /\ attempts[a].current_hash
              # turns[attempts[a].turn].proj.last_generation_fields_hash
        /\ attempts[b].current_hash
              # turns[attempts[b].turn].proj.last_generation_fields_hash

\* C5: while a generation call of an attempt is in flight, the committed
\* status of the project is generating.
C5_GeneratingWhileInFlight ==
    \A a \in DOMAIN attempts :
        attempts[a].state = "running" => project.status = "generating"

\* C6: a stored document whose field-bag has is_complete = true has it in
\* the next state too.
C6_CompletionMonotonic ==
    [][ \A i \in DOMAIN documents :
          IsComplete(documents[i].fields) =>
             /\ i \in DOMAIN documents'
             /\ IsComplete(documents'[i].fields) ]_vars

\* C7: the merge leaves a document whose field-bag has is_complete = true
\* unchanged, whatever section is merged.
C7_CompleteIsFrozen ==
    IsComplete(mrg.existing.fields) => mrg.doc = mrg.existing

C7_Witness ==
    /\ IsComplete(mrg.existing.fields)
    /\ mrg.section # Null
    /\ mrg.section[1]["is_complete"] = "False"
    /\ mrg.section[1]["funding_stage"] = "'a'"
    /\ Get(FieldsOrEmpty(mrg.existing.fields), "funding_stage", "None") = "'b'"
    /\ mrg.doc = mrg.existing

\* C8: in the merge of a document that is not complete, a key whose existing
\* value is populated and whose incoming value is null, an empty string or
\* an empty list has the same value after the merge.
C8_PopulatedNotErased ==
    ( ~IsComplete(mrg.existing.fields) /\ mrg.section # Null
      /\ mrg.existing.type \in DOCUMENT_TYPE_TO_ATTR )
    => \A k \in FieldKeys :
          ( /\ IsPopulated(Get(FieldsOrEmpty(mrg.existing.fields), k, "None"))
            /\ mrg.section[1][k] \in {"None", "''", "[]"} )
          => /\ k \in DOMAIN FieldsOrEmpty(mrg.doc.fields)
             /\ mrg.doc.fields[1][k] = mrg.existing.fields[1][k]

C8_Witness ==
    /\ ~IsComplete(mrg.existing.fields)
    /\ mrg.section # Null
    /\ Get(FieldsOrEmpty(mrg.existing.fields), "funding_stage", "None") = "'a'"
    /\ Get(FieldsOrEmpty(mrg.existing.fields), "use_of_funds", "None") = "['x']"
    /\ Get(FieldsOrEmpty(mrg.existing.fields), "runway_months", "None") = "3"
    /\ mrg.section[1]["funding_stage"] = "''"
    /\ mrg.section[1]["use_of_funds"] = "[]"
    /\ mrg.section[1]["runway_months"] = "None"
    /\ mrg.doc.fields[1]["funding_stage"] = "'a'"
    /\ mrg.doc.fields[1]["use_of_funds"] = "['x']"
    /\ mrg.doc.fields[1]["runway_months"] = "3"

\* The number of document types the project has a document of, and whether
\* each of them is complete, read off gate.present and gate.extra.
Represented ==
    Cardinality({t \in DOCUMENT_TYPE_TO_ATTR : gate.present[t] # "absent"})
        + (IF gate.extra THEN 1 ELSE 0)

AllRepresentedComplete ==
    /\ ~gate.extra
    /\ \A t \in DOCUMENT_TYPE_TO_ATTR : gate.present[t] \in {"absent", "complete"}

\* C9: check_all_complete is true exactly when nine document types are
\* represented and each of them is complete.
C9_GateCorrect ==
    gate.evaluated =>
        ( gate.all_complete <=> (Represented = 9 /\ AllRepresentedComplete) )

C9_Witness ==
    /\ gate.evaluated
    /\ Represented = 7
    /\ AllRepresentedComplete
    /\ ~gate.all_complete

\* C10: the step in which a design turn is rejected by the gate changes
\* neither the project, nor the documents, nor the background tasks, and at
\* most adds the user's message.
C10_GateRejectChangesNothing ==
    [][ \A t \in TurnIds :
          ( turns[t].pc = "ensure" /\ turns'[t].result = "gate_rejected" )
          => /\ project' = project
             /\ documents' = documents
             /\ attempts' = attempts
             /\ \/ chat_messages' = chat_messages
                \/ chat_messages' = AddMessages(<<UserMessage>>) ]_vars

C10_Witness ==
    \E t \in TurnIds :
        /\ turns[t].result = "gate_rejected"
        /\ project = NewProject
        /\ documents = <<>>
        /\ \A m \in MessageValues : chat_messages[m] = 0

\* The design turn d has passed the completion gate of lines 509-511.
PassedGate(d) ==
    /\ turns[d].mode = "design"
    /\ turns[d].pc \in {"design", "ack", "done"}
    /\ turns[d].result # "gate_rejected"

\* C11: once a design turn has passed the completion gate, no design turn
\* is rejected by the gate any more, whatever the extraction turns, design
\* turns, background tasks and generate_documents requests in between.
C11_GateStaysOpen ==
    [][ (\E d \in TurnIds : PassedGate(d))
        => \A t \in TurnIds :
              ~( turns[t].pc = "ensure" /\ turns'[t].result = "gate_rejected" ) ]_vars

\* C12: once a turn has ensured the documents of the project (a document
\* created by _ensure_documents_exist is stored), the project has exactly
\* one document of each of the nine known types.
C12_OneRecordPerType ==
    (\E id \in IdsOf(documents) : id[1] \in TurnIds) =>
        \A ty \in DOCUMENT_TYPE_TO_ATTR :
            Cardinality({i \in DOMAIN documents : documents[i].type = ty}) = 1

\* C13: no step of an extraction turn (its load, its ensure, its commit or
\* its failure) changes the status or the stored fingerprint of the project.
C13_DocTurnKeepsStatusAndHash ==
    [][ \A t \in TurnIds :
          ( turns'[t] # turns[t] /\ turns'[t].mode = "doc" )
          => /\ project'.status = project.status
             /\ project'.last_generation_fields_hash
                   = project.last_generation_fields_hash ]_vars

\* An extraction turn sent after a design turn triggered has committed its
\* reply and the switch of the mode while the task is running.
C13_Witness ==
    \E t \in TurnIds, a \in DOMAIN attempts :
        /\ attempts[a].state = "running"
        /\ attempts[a].turn < t
        /\ turns[t].mode = "doc"
        /\ turns[t].result = "reply"
        /\ project.mode = "doc"
        /\ project.status = "generating"

\* C14: when the doc-agent call of an extraction turn raises, the user's
\* message added before the call is in the stored conversation after the
\* turn has ended.
C14_UserMessageSurvivesFailure ==
    [][ \A t \in TurnIds :
          ( turns[t].pc = "infer" /\ turns'[t].result = "doc_agent_error" )
          => chat_messages'[UserMessage] = chat_messages[UserMessage] + 1 ]_vars

\* C15: the step in which a design turn finds the current fingerprint equal
\* to the stored one leaves the status, the fingerprint, the composite
\* artifact, the summary, the export and every document as stored, creates
\* no background task, adds the user's message and one "no changes"
\* message, and answers "no changes" (generation_triggered false, no
\* project snapshot).
C15_NoChangesTouchesNothing ==
    [][ \A t \in TurnIds :
          ( turns[t].pc = "design" /\ turns'[t].pc = "done" )
          => /\ turns'[t].result = "no_changes"
             /\ \A col \in DOMAIN project \ {"mode"} : project'[col] = project[col]
             /\ documents' = documents
             /\ attempts' = attempts
             /\ chat_messages' = AddMessages(<<UserMessage, NoChangesMessage>>) ]_vars

\* A design turn answered "no changes" on a project that holds artifacts.
C15_Witness ==
    \E t \in TurnIds :
        /\ turns[t].result = "no_changes"
        /\ project.full_html # Null
        /\ chat_messages[NoChangesMessage] = 1

C17_OneTerminalMessage ==
    /\ [][ /\ \A a \in DOMAIN attempts :
                /\ Succeeds(a) => chat_messages' = AddMessages(<<DoneMessage>>)
                /\ Fails(a) => chat_messages' = AddMessages(<<FailMessage>>)
           /\ (\A a \in DOMAIN attempts : ~Succeeds(a) /\ ~Fails(a))
                => /\ chat_messages'[DoneMessage] = chat_messages[DoneMessage]
                   /\ chat_messages'[FailMessage] = chat_messages[FailMessage] ]_vars
    /\ [] /\ chat_messages[DoneMessage] =
               Cardinality({a \in DOMAIN attempts : attempts[a].state = "ok"})
          /\ chat_messages[FailMessage] =
               Cardinality({a \in DOMAIN attempts : attempts[a].state = "failed"})

\* One task has failed and another has committed before the turn that
\* created it has returned.
C17_Witness ==
    \E a, b \in DOMAIN attempts :
        /\ attempts[a].state = "failed"
        /\ attempts[b].state = "ok"
        /\ turns[attempts[b].turn].pc = "ack"
        /\ chat_messages[FailMessage] = 1
        /\ chat_messages[DoneMessage] = 1
        /\ chat_messages[GeneratingMessage] = 1

\* C18: whenever the status of the project is generating it is draft again
\* later, given that every background task ends; the status is never
\* anything but draft or generating.
C18_GeneratingLeadsToDraft ==
    /\ (project.status = "generating") ~> (project.status = "draft")
    /\ [](project.status \in {"draft", "generating"})

\* The status is draft again after a task failed and after a task
\* committed.
C18_Witness ==
    \E a, b \in DOMAIN attempts :
        /\ attempts[a].state = "failed"
        /\ attempts[b].state = "ok"
        /\ \A c \in DOMAIN attempts : attempts[c].state # "running"
        /\ project.status = "draft"

\* The request t is rejected on entry in this step.
RejectedNow(t) == turns[t].pc = "idle" /\ turns'[t].pc = "done"

\* C19: a request whose mode token is neither 'doc' nor 'design' is answered
\* with the validation error whoever the caller and whatever the project id
\* (the project is not looked up), and its step changes neither the project
\* (mode, status, fingerprint), nor the messages, nor the documents, nor
\* the background tasks.
C19_InvalidModeRejectedFirst ==
    [][ \A t \in TurnIds :
          ( RejectedNow(t) /\ turns'[t].mode \notin ValidModes )
          => /\ turns'[t].result = "invalid_mode"
             /\ project' = project
             /\ documents' = documents
             /\ chat_messages' = chat_messages
             /\ attempts' = attempts ]_vars

\* Another caller's request with an unknown mode token, on a project that
\* holds documents and is in design mode, was answered with the validation
\* error and not with not-found.
C19_Witness ==
    \E t \in TurnIds :
        /\ turns[t].result = "invalid_mode"
        /\ ~get_project(turns[t].user, turns[t].project_id)
        /\ turns[t].project_id = project.id
        /\ project.mode = "design"
        /\ documents # <<>>

\* C20: a request with a valid mode token on a project that does not exist
\* or is not the caller's is answered not-found, and its step changes
\* neither the project (mode, status, fingerprint), nor the messages, nor
\* the documents, nor the background tasks.
C20_NotFoundChangesNothing ==
    [][ \A t \in TurnIds :
          ( /\ RejectedNow(t)
            /\ turns'[t].mode \in ValidModes
            /\ ~get_project(turns'[t].user, turns'[t].project_id) )
          => /\ turns'[t].result = "not_found"
             /\ project' = project
             /\ documents' = documents
             /\ chat_messages' = chat_messages
             /\ attempts' = attempts ]_vars

\* Another caller's request in doc mode on the project, which is in design
\* mode and generating, was answered not-found.
C20_Witness ==
    \E t \in TurnIds :
        /\ turns[t].result = "not_found"
        /\ turns[t].user # project.user_id
        /\ turns[t].project_id = project.id
        /\ turns[t].mode = "doc"
        /\ project.mode = "design"
        /\ project.status = "generating"

\* C21: when a section has been merged into a document without fields,
\* merging the same section again leaves the document (its field-bag and
\* its status) as the first merge made it, for every section, complete or
\* not.
C21_MergeTwiceIsMergeOnce ==
    [][ ( mrg.existing.fields = Null /\ mrg'.section = mrg.section )
        => mrg'.doc = mrg.doc ]_vars

\* A section that sets is_complete has been merged a second time into the
\* document that its first merge into the empty bag produced.
C21_Witness ==
    /\ mrg.section # Null
    /\ mrg.section[1]["is_complete"] = "True"
    /\ mrg.existing.type \in DOCUMENT_TYPE_TO_ATTR
    /\ mrg.existing.fields = Some(MergeFields(EmptyBag, mrg.section[1]))
    /\ mrg.existing.status = "ready"
    /\ mrg.doc = mrg.existing

SameBags(x, y) ==
    /\ Len(x) = Len(y)
    /\ \A i \in DOMAIN x :
          \/ x[i] = Null /\ y[i] = Null
          \/ x[i] # Null /\ y[i] # Null /\ PairsOf(x[i][1]) = PairsOf(y[i][1])

\* C23: two lists of field-bags that hold the same key/value pairs document
\* by document have the same fingerprint whatever the order of the keys in
\* the dicts, and two lists that differ in a document's fields have
\* different fingerprints.
C23_HashIsCanonical ==
    hsh.done => ( SameBags(hsh.a, hsh.b) <=> hsh.ha = hsh.hb )

\* Two lists whose dicts hold the same two pairs in different insertion
\* orders were given the same fingerprint.
C23_Witness ==
    /\ hsh.done
    /\ SameBags(hsh.a, hsh.b)
    /\ Len(hsh.a) = 2
    /\ hsh.a[1] # Null
    /\ Len(hsh.a[1][1]) = 2
    /\ hsh.a[1] # hsh.b[1]
    /\ hsh.ha = hsh.hb

\* C24: when handle_refresh is presented with a revoked token it answers
\* 401 and, once the call has ended, every refresh token of the token's
\* user is revoked in the stored rows.
C24_ReuseRevokesAll ==
    [][ \A c \in CallIds :
          ( auth.calls[c].pc = "selected" /\ auth'.calls[c].result = "reuse_detected" )
          => \A i \in DOMAIN auth'.tokens :
                auth'.tokens[i].user_id = auth.calls[c].seen[1].user_id
                => auth'.tokens[i].is_revoked ]_vars

\* C25: under extraction turns, design turns and their background tasks
\* the stored fingerprint changes at most once: a step changes it only when
\* it is null.
C25_FingerprintChangesOnce ==
    [][ project'.last_generation_fields_hash # project.last_generation_fields_hash
        => project.last_generation_fields_hash = Null ]_vars

\* The task a commits in this step.
TaskEnds(a) ==
    attempts[a].state = "fetched" /\ attempts'[a].state \in {"ok", "failed"}

\* C26: when a background task commits, on success or on failure, the
\* status of the project is draft, whatever was written to it while the
\* task was running.
C26_TaskEndSetsDraft ==
    [][ \A a \in DOMAIN attempts : TaskEnds(a) => project'.status = "draft" ]_vars

\* C26 (amended): when a background task commits, the status of the project
\* is draft unless the task re-fetched the project with status draft, in
\* which case the commit leaves the status as it is stored; a status shared
\* that the task re-fetched, or that was written over a re-fetched
\* generating, is replaced by draft and the project is not returned by the
\* public routes any more.
C26_TaskEndSetsDraftUnlessFetchedDraft ==
    [][ \A a \in DOMAIN attempts :
          TaskEnds(a)
          => IF attempts[a].loaded[1].status = "draft"
             THEN project'.status = project.status
             ELSE project'.status = "draft" /\ ~PublicVisible(project') ]_vars

\* A task that re-fetched the project as shared has committed and the
\* project is draft; so has one under which shared was written after its
\* re-fetch.
C26_Witness ==
    \E a, b \in DOMAIN attempts :
        /\ attempts[a].state \in {"ok", "failed"}
        /\ attempts[a].loaded[1].status = "shared"
        /\ attempts[b].state \in {"ok", "failed"}
        /\ attempts[b].loaded[1].status = "generating"
        /\ project # Null
        /\ project.status = "draft"

\* C27: once the project is deleted, no step of a background task that was
\* triggered before writes anything: the project stays deleted and it has
\* no document and no message, whether the task finds the project missing
\* at its re-fetch or at its commit.
C27_TaskWritesNothingAfterDelete ==
    [][ project = Null
        => /\ project' = Null
           /\ documents = <<>> /\ documents' = <<>>
           /\ chat_messages = NoMessages /\ chat_messages' = NoMessages ]_vars

\* The project was deleted under two running tasks: one found it missing at
\* its re-fetch, the other had re-fetched it before the deletion.
C27_Witness ==
    /\ project = Null
    /\ \E a, b \in DOMAIN attempts :
          /\ attempts[a].state = "dropped" /\ attempts[a].loaded = Null
          /\ attempts[b].state = "dropped" /\ attempts[b].loaded # Null

\* C28: a turn that asked for a mode different from the stored one leaves
\* the stored mode equal to the mode it asked for when it ends.
C28_ModeSwitchIsStored ==
    [][ \A t \in TurnIds :
          ( turns[t].pc \notin {"idle", "done"} /\ turns'[t].pc = "done"
            /\ "mode" \in turns[t].dirty )
          => project'.mode = turns[t].mode ]_vars

\* C29: the documents a triggered attempt issues a prose call for are
\* exactly the stored documents whose content is empty when the attempt is
\* triggered.
C29_ProseCallsForEmptyContent ==
    [][ Len(attempts') > Len(attempts)
        => attempts'[Len(attempts')].docs_needing_content
              = DocsNeedingContent(documents') ]_vars

\* The design turn d loaded the project after attempt a, in which the prose
\* call of some document raised, had committed (the last commit before the
\* load), and computes a's fingerprint again.
LaterSameBags(d, a) ==
    /\ attempts[a].failed_docs # {}
    /\ IsLatestOk(a, turns[d].ended_at_load)
    /\ turns[d].mode = "design"

AsBag(canonical) == IF canonical = CanonicalJson(Null) THEN CanonicalJson(Some(EmptyBag)) ELSE canonical

\* The field-bags the stored fingerprint was computed from, and the
\* field-bags of the stored export.
HashedBags ==
    LET hashed == project.last_generation_fields_hash[1][2]
    IN {AsBag(hashed[i]) : i \in DOMAIN hashed}

ExportedBags ==
    LET documents_of == project.ai_json[1]
    IN {CanonicalJson(Some(documents_of[ty])) : ty \in DOMAIN documents_of}

\* C31: whenever the stored fingerprint is not null, the composite artifact
\* and the export are not null and the field-bags of the export are the
\* field-bags the fingerprint was computed from.
C31_FingerprintMatchesExport ==
    project.last_generation_fields_hash # Null
    => /\ project.full_html # Null
       /\ project.ai_json # Null
       /\ ExportedBags = HashedBags

\* C32: every stored document created by _ensure_documents_exist has
\* status ready if its field-bag has is_complete = true and status pending
\* if not.
C32_ReadyIffComplete ==
    \A i \in DOMAIN documents :
        documents[i].id[1] \in TurnIds
        => documents[i].status =
              (IF IsComplete(documents[i].fields) THEN "ready" ELSE "pending")

\* The document types of the project that are not complete: a known type
\* without a stored document, and a type whose stored document (the last
\* one selected, if there are several) has no is_complete = true.
IncompleteTypes(stored) ==
    {ty \in DOCUMENT_TYPE_TO_ATTR \cup {stored[i].type : i \in DOMAIN stored} :
        \A i \in DOMAIN stored :
            ( stored[i].type = ty
              /\ \A j \in DOMAIN stored : stored[j].type = ty => j <= i )
            => ~IsComplete(stored[i].fields)}

\* C33: the detail of a gate rejection has incomplete_count >= 1,
\* incomplete_count is the number of listed types, no type is listed twice,
\* and the listed types are the document types of the project that are not
\* complete.
C33_GateDetailIsExact ==
    [][ \A t \in TurnIds :
          ( turns[t].pc = "ensure" /\ turns'[t].result = "gate_rejected" )
          => LET detail == turns'[t].detail[1]
             IN /\ detail.incomplete_count >= 1
                /\ detail.incomplete_count = Len(detail.incomplete_docs)
                /\ Cardinality(RangeOf(detail.incomplete_docs))
                      = Len(detail.incomplete_docs)
                /\ RangeOf(detail.incomplete_docs) = IncompleteTypes(documents) ]_vars

\* A design turn was rejected on a project with stored documents of which
\* one type is complete: eight types are listed.
C33_Witness ==
    \E t \in TurnIds :
        /\ turns[t].result = "gate_rejected"
        /\ documents # <<>>
        /\ turns[t].detail # Null
        /\ turns[t].detail[1].incomplete_count = 8
        /\ DOCUMENT_TYPE_TITLES[1] \notin RangeOf(turns[t].detail[1].incomplete_docs)

\* C34: the step in which a background task ends leaves the mode and the
\* prompt of the project and the type and the field-bag of every document
\* as they are stored at that moment, whatever they were when the task was
\* triggered; it changes content and status only of the documents whose
\* prose it produced, and on failure nothing but the status of the project.
C34_TaskKeepsConcurrentWrites ==
    [][ \A a \in DOMAIN attempts :
          ( Succeeds(a) \/ Fails(a) )
          => /\ \A col \in {"id", "user_id", "mode", "prompt"} :
                   project'[col] = project[col]
             /\ Fails(a) =>
                   /\ documents' = documents
                   /\ \A col \in DOMAIN project \ {"status"} :
                         project'[col] = project[col]
             /\ DOMAIN documents' = DOMAIN documents
             /\ \A i \in DOMAIN documents :
                   /\ documents'[i].id = documents[i].id
                   /\ documents'[i].type = documents[i].type
                   /\ documents'[i].fields = documents[i].fields
                   /\ documents[i].id \notin
                         attempts[a].docs_needing_content \ attempts'[a].failed_docs
                      => documents'[i] = documents[i] ]_vars

\* A task has committed; the project is in the mode that an extraction turn,
\* sent after the trigger and before the task ended, switched it to.
C34_Witness ==
    \E a \in DOMAIN attempts : \E t \in TurnIds :
        /\ attempts[a].state = "ok"
        /\ turns[attempts[a].turn].proj.mode = "design"
        /\ t > attempts[a].turn
        /\ turns[t].mode = "doc"
        /\ turns[t].result = "reply"
        /\ a \notin turns[t].ended_at_load
        /\ project.mode = "doc"
        /\ project.full_html = Some(a)

\* C35: of the handle_refresh calls that presented one refresh token, at
\* most one has succeeded.
C35_OneRefreshPerToken ==
    \A value \in DOMAIN auth.tokens :
        Cardinality({c \in CallIds : /\ auth.calls[c].token = value
                                      /\ auth.calls[c].result = "ok"}) <= 1

\* C36: no user owns two projects whose names are equal ignoring case:
\* the select of get_project_by_name matches at most one project.
C36_NamesUniqueIgnoringCase ==
    \A user \in Users : \A name \in ProjectNames :
        Cardinality(get_project_by_name(user, name)) <= 1

====
